---------------------------- MODULE Spec2Model ----------------------------
(***************************************************************************)
(* Model of ev.py: the all-in adjusted EV calculator.                      *)
(*                                                                         *)
(* The model covers deck / hand_strength / monte_carlo_equity /            *)
(* process_hand and the session loop and summary of main.  A card is the   *)
(* pair <<rank char, suit char>> of the two-character token.  Python       *)
(* dicts are insertion-ordered association lists (sequences of pairs or    *)
(* of Player records).  Python floats are modelled by exact rationals      *)
(* <<num, den>> in lowest terms.  The random module's generator is a       *)
(* state in 0..RngMod-1: seeding sets it from the seed, every draw reads   *)
(* it and advances it.  An uncaught exception ends the run in pc="error".  *)
(***************************************************************************)
EXTENDS Integers, Sequences, FiniteSets, TLC

\* ----------------------------------------------------------------- bounds
MaxHands == 2
MaxIters == 2
MaxSeed == 1
RngMod == 7

\* ------------------------------------------------------------ rationals
Abs(x) == IF x < 0 THEN -x ELSE x

RECURSIVE Gcd(_, _)
Gcd(a, b) == IF b = 0 THEN a ELSE Gcd(b, a % b)

\* n/d in lowest terms with a positive denominator (d # 0).
Rat(n, d) ==
    LET s == IF d < 0 THEN -1 ELSE 1
        g == Gcd(Abs(n), Abs(d))
    IN  <<(s * n) \div g, (s * d) \div g>>

RInt(n) == <<n, 1>>
RAdd(x, y) == Rat(x[1] * y[2] + y[1] * x[2], x[2] * y[2])
RSub(x, y) == Rat(x[1] * y[2] - y[1] * x[2], x[2] * y[2])
RMul(x, y) == Rat(x[1] * y[1], x[2] * y[2])
RDiv(x, y) == Rat(x[1] * y[2], x[2] * y[1])

RECURSIVE RSum(_)
RSum(s) == IF s = <<>> THEN RInt(0) ELSE RAdd(RSum(SubSeq(s, 1, Len(s) - 1)), s[Len(s)])

\* ------------------------------------------------------- sequence helpers
Range(s) == {s[j] : j \in DOMAIN s}

\* list.index / str.index: 0-based position of the first occurrence.
IndexOf(s, x) == (CHOOSE j \in DOMAIN s : s[j] = x /\ \A m \in 1..(j - 1) : s[m] # x) - 1

RECURSIVE MaxOf(_)
MaxOf(S) == LET x == CHOOSE y \in S : TRUE
            IN  IF S = {x} THEN x
                ELSE LET m == MaxOf(S \ {x}) IN IF x > m THEN x ELSE m

\* dict.get(key, default) on an association list of <<key, value>> pairs.
DictGet(d, key, default) ==
    IF \E j \in DOMAIN d : d[j][1] = key
    THEN d[CHOOSE j \in DOMAIN d : d[j][1] = key /\ \A m \in 1..(j - 1) : d[m][1] # key][2]
    ELSE default

\* --------------------------------------------------------- cards and deck
RANKS == <<"2", "3", "4", "5", "6", "7", "8", "9", "T", "J", "Q", "K", "A">>
SUITS == <<"s", "h", "d", "c">>

\* [r + s for r in RANKS for s in SUITS]
deck == [j \in 1..(Len(RANKS) * Len(SUITS)) |->
            <<RANKS[((j - 1) \div Len(SUITS)) + 1], SUITS[((j - 1) % Len(SUITS)) + 1]>>]

\* max(RANKS.index(c[0]) for c in cards)
hand_strength(cards) == MaxOf({IndexOf(RANKS, cards[j][1]) : j \in DOMAIN cards})

\* ------------------------------------------------------- random generator
None == <<>>

\* random.seed(seed): the state is a function of the seed alone.
SeedState(seed) == seed % RngMod

\* One draw of the generator: the value below n it yields, and its next state.
RandBelow(s, n) == (7 * s) % n
NextRng(s) == (s + 1) % RngMod

\* random.sample(population, k) for 0 <= k <= len(population): k elements at
\* distinct positions, in selection order, and the generator state afterwards.
RECURSIVE SamplePool(_, _, _, _)
SamplePool(pool, k, s, acc) ==
    IF k = 0 THEN [sample |-> acc, rng |-> s]
    ELSE LET n == Len(pool)
             j == RandBelow(s, n) + 1
             rest == [m \in 1..(n - 1) |-> IF m = j THEN pool[n] ELSE pool[m]]
         IN  SamplePool(rest, k - 1, NextRng(s), Append(acc, pool[j]))

random_sample(population, k, s) == SamplePool(population, k, s, <<>>)

\* random.sample raises ValueError ("Sample larger than population or is negative").
SampleRaises(population, k) == k < 0 \/ k > Len(population)


\* ------------------------------------------------------------ data model
\* class Player: cards or []
Player(name, cards) == [name |-> name, cards |-> cards]

\* class Hand
Hand(hand_id, date, hero, players, board, rake, total_pot, results) ==
    [hand_id |-> hand_id, date |-> date, hero |-> hero, players |-> players,
     board |-> board, rake |-> rake, total_pot |-> total_pot, results |-> results]

\* The hands a session is drawn from.
\*   A  complete board, hero ace-high against queens (the hero wins)
\*   B  complete board, both play the board's jack (a tie)
\*   C  complete board, hero queen-high against ace-high (the hero loses)
\*   D  flop only: the outcome depends on the two cards drawn
\*   E  empty board: the outcome depends on the five cards drawn
\*   G  what parse_hh_file produces: the hero alone, no cards
\*   H  the first non-hero player has no cards, a later one has
\*   I  the hero shows a single card
\*   J  the hero and the villain both hold the ace of hearts
\*   K  a board of six cards
HandPool ==
    { Hand("A", "d1", "Hero",
           <<Player("Hero", << <<"A","h">>, <<"K","d">> >>),
             Player("V1", << <<"Q","s">>, <<"Q","c">> >>)>>,
           << <<"2","h">>, <<"3","d">>, <<"9","c">>, <<"J","d">>, <<"T","c">> >>,
           5, 100, << <<"Hero", 10>>, <<"V1", -10>> >>),
      Hand("B", "d2", "Hero",
           <<Player("V1", << <<"4","h">>, <<"5","h">> >>),
             Player("Hero", << <<"4","s">>, <<"5","s">> >>)>>,
           << <<"2","h">>, <<"3","d">>, <<"9","c">>, <<"J","d">>, <<"T","c">> >>,
           5, 15, << <<"Hero", -20>> >>),
      Hand("C", "d3", "Hero",
           <<Player("Hero", << <<"Q","s">>, <<"Q","c">> >>),
             Player("V1", << <<"A","h">>, <<"K","d">> >>)>>,
           << <<"2","h">>, <<"3","d">>, <<"9","c">>, <<"J","d">>, <<"T","c">> >>,
           5, 24, << <<"V1", 7>> >>),
      Hand("D", "d4", "Hero",
           <<Player("Hero", << <<"T","s">>, <<"2","s">> >>),
             Player("V1", << <<"8","h">>, <<"3","h">> >>)>>,
           << <<"4","c">>, <<"5","c">>, <<"6","c">> >>,
           2, 40, << <<"Hero", 20>> >>),
      Hand("E", "d5", "Hero",
           <<Player("Hero", << <<"Q","s">>, <<"2","d">> >>),
             Player("V1", << <<"K","h">>, <<"3","h">> >>),
             Player("V2", << <<"A","s">>, <<"A","c">> >>)>>,
           <<>>,
           0, 30, <<>>),
      Hand("G", "d6", "Hero",
           <<Player("Hero", <<>>)>>,
           <<>>,
           0, 0, <<>>),
      Hand("H", "d7", "Hero",
           <<Player("Hero", << <<"A","h">>, <<"K","d">> >>),
             Player("V1", <<>>),
             Player("V2", << <<"Q","s">>, <<"Q","c">> >>)>>,
           << <<"2","h">>, <<"3","d">>, <<"9","c">> >>,
           1, 20, << <<"Hero", 5>> >>),
      Hand("I", "d8", "Hero",
           <<Player("Hero", << <<"A","h">> >>),
             Player("V1", << <<"Q","s">>, <<"Q","c">> >>)>>,
           << <<"2","h">>, <<"3","d">>, <<"9","c">>, <<"J","d">>, <<"T","c">> >>,
           1, 20, << <<"Hero", 5>> >>),
      Hand("J", "d9", "Hero",
           <<Player("Hero", << <<"A","h">>, <<"K","d">> >>),
             Player("V1", << <<"A","h">>, <<"Q","c">> >>)>>,
           << <<"2","h">>, <<"3","d">>, <<"9","c">> >>,
           1, 20, << <<"Hero", 5>> >>),
      Hand("K", "d10", "Hero",
           <<Player("Hero", << <<"A","h">>, <<"K","d">> >>),
             Player("V1", << <<"Q","s">>, <<"Q","c">> >>)>>,
           << <<"2","h">>, <<"3","d">>, <<"9","c">>, <<"J","d">>, <<"T","c">>, <<"8","d">> >>,
           1, 20, << <<"Hero", 5>> >>) }

\* hand.players.get(name): the player in a sequence of length 1, or <<>> for None.
PlayersGet(players, name) == SelectSeq(players, LAMBDA pl : pl.name = name)

\* for name, pl in hand.players.items(): if name != hand.hero: villain = pl; break
FirstNonHero(hand) ==
    LET others == SelectSeq(hand.players, LAMBDA pl : pl.name # hand.hero)
    IN  IF others = <<>> THEN <<>> ELSE <<others[1]>>

\* not (not hero or not villain or not hero.cards or not villain.cards)
HasRow(hand) ==
    LET hero == PlayersGet(hand.players, hand.hero)
        villain == FirstNonHero(hand)
    IN  /\ hero # <<>>
        /\ villain # <<>>
        /\ hero[1].cards # <<>>
        /\ villain[1].cards # <<>>

\* hero.cards, villain.cards of a hand that passed the check above
HeroCards(hand) == PlayersGet(hand.players, hand.hero)[1].cards
VillainCards(hand) == FirstNonHero(hand)[1].cards

\* if seed:
ShouldSeed(seed) == seed # None /\ seed[1] # 0

\* DeckLeft with the dead cards left in the deck.
DeckLeftKeepsDead(hero, villain, brd) == deck

\* deck_left = [c for c in deck() if c not in set(hero_cards + villain_cards + board)]
DeckLeft(hero, villain, brd) ==
    LET dead == Range(hero \o villain \o brd)
    IN  SelectSeq(deck, LAMBDA c : c \notin dead)

\* the counters after one comparison of the two strengths
WinsAfter(wins, hero_best, villain_best) ==
    IF hero_best > villain_best THEN wins + 1 ELSE wins

\* TiesAfter with the tie test written >= and not chained to the win test.
TiesAfterGeq(t, hero_best, villain_best) ==
    IF hero_best >= villain_best THEN t + 1 ELSE t

TiesAfter(t, hero_best, villain_best) ==
    IF hero_best > villain_best THEN t
    ELSE IF hero_best = villain_best THEN t + 1 ELSE t

\* Equity with a tie counted as a whole win.
EquityTieAsWin(wins, t, mc_iters) == RDiv(RAdd(RInt(wins), RInt(t)), RInt(mc_iters))

\* (hero_wins + ties * 0.5) / mc_iters
Equity(wins, t, mc_iters) ==
    RDiv(RAdd(RInt(wins), RMul(RInt(t), Rat(1, 2))), RInt(mc_iters))

\* EligiblePot with the rake flag read the wrong way round.
EligiblePotFlagInverted(hand, ev_before_rake) ==
    RInt(hand.total_pot - (IF ev_before_rake THEN hand.rake ELSE 0))

\* hand.total_pot - (0 if args.ev_before_rake else hand.rake)
EligiblePot(hand, ev_before_rake) ==
    RInt(hand.total_pot - (IF ev_before_rake THEN 0 ELSE hand.rake))

\* the dict process_hand returns
Row(hand, equity, ev_before_rake) ==
    LET eligible_pot == EligiblePot(hand, ev_before_rake)
        hero_invested == RDiv(eligible_pot, RInt(2))
        ev_contrib == RSub(RMul(equity, eligible_pot), hero_invested)
        hero_net == RInt(DictGet(hand.results, hand.hero, 0))
    IN  [hand_id |-> hand.hand_id, date |-> hand.date, hero |-> hand.hero,
         equity |-> equity, eligible_pot |-> eligible_pot,
         hero_invested |-> hero_invested, ev_contrib |-> ev_contrib,
         hero_net |-> hero_net]

\* --------------------------------------------------------------- state
VARIABLES
    hands,          \* main: the list read_hands returned
    args,           \* the parsed arguments: mc_iters, seed, ev_before_rake
    rng,            \* the random module's shared generator
    pc,             \* "main" | "mce" | "loop" | "done" | "error"
    i,              \* main: how many hands the for loop has consumed
    rows,           \* main: rows
    summary,        \* main: <<>> until the totals are computed
    hero_cards,     \* monte_carlo_equity: arguments and locals
    villain_cards,
    board,
    deck_left,
    hero_wins,
    ties,
    k,              \* iterations of the simulation loop completed
    full_board,     \* the board completed by the last iteration
    seedings,       \* how many times random.seed has been called
    calls           \* how many times monte_carlo_equity has been called

frame == <<hero_cards, villain_cards, board, deck_left, hero_wins, ties, k, full_board>>
vars == <<hands, args, rng, pc, i, rows, summary, frame, seedings, calls>>

RECURSIVE SeqsUpTo(_, _)
SeqsUpTo(S, n) ==
    IF n = 0 THEN {<<>>}
    ELSE LET shorter == SeqsUpTo(S, n - 1)
         IN  shorter \cup {Append(s, x) : s \in shorter, x \in S}

Seeds == {None} \cup {<<s>> : s \in 0..MaxSeed}

NoFrame ==
    /\ hero_cards = <<>> /\ villain_cards = <<>> /\ board = <<>>
    /\ deck_left = <<>> /\ hero_wins = 0 /\ ties = 0 /\ k = 0 /\ full_board = <<>>

Init ==
    /\ hands \in SeqsUpTo(HandPool, MaxHands)
    /\ args \in [mc_iters : 1..MaxIters, seed : Seeds, ev_before_rake : BOOLEAN]
    /\ rng \in 0..(RngMod - 1)
    /\ pc = "main"
    /\ i = 0
    /\ rows = <<>>
    /\ summary = <<>>
    /\ NoFrame
    /\ seedings = 0
    /\ calls = 0

\* main, for h in hands: process_hand returns None
SkipHand ==
    /\ pc = "main"
    /\ i < Len(hands)
    /\ ~HasRow(hands[i + 1])
    /\ i' = i + 1
    /\ UNCHANGED <<hands, args, rng, pc, rows, summary, frame, seedings, calls>>

\* main, for h in hands: process_hand calls monte_carlo_equity
CallEquity ==
    /\ pc = "main"
    /\ i < Len(hands)
    /\ HasRow(hands[i + 1])
    /\ LET hand == hands[i + 1] IN
        /\ hero_cards' = HeroCards(hand)
        /\ villain_cards' = VillainCards(hand)
        /\ board' = hand.board
    /\ pc' = "mce"
    /\ calls' = calls + 1
    /\ UNCHANGED <<hands, args, rng, i, rows, summary, deck_left, hero_wins, ties, k,
                   full_board, seedings>>

\* EnterEquity seeding the generator on the first call only.
EnterEquitySeedOnce ==
    /\ pc = "mce"
    /\ rng' = IF ShouldSeed(args.seed) /\ seedings = 0 THEN SeedState(args.seed[1]) ELSE rng
    /\ seedings' = IF ShouldSeed(args.seed) /\ seedings = 0 THEN seedings + 1 ELSE seedings
    /\ deck_left' = DeckLeft(hero_cards, villain_cards, board)
    /\ hero_wins' = 0
    /\ ties' = 0
    /\ k' = 0
    /\ pc' = "loop"
    /\ UNCHANGED <<hands, args, i, rows, summary, hero_cards, villain_cards, board,
                   full_board, calls>>

\* monte_carlo_equity up to the loop: seeding, the dead cards, the counters
EnterEquity ==
    /\ pc = "mce"
    /\ rng' = IF ShouldSeed(args.seed) THEN SeedState(args.seed[1]) ELSE rng
    /\ seedings' = IF ShouldSeed(args.seed) THEN seedings + 1 ELSE seedings
    /\ deck_left' = DeckLeft(hero_cards, villain_cards, board)
    /\ hero_wins' = 0
    /\ ties' = 0
    /\ k' = 0
    /\ pc' = "loop"
    /\ UNCHANGED <<hands, args, i, rows, summary, hero_cards, villain_cards, board,
                   full_board, calls>>

\* one iteration of the simulation loop
Iterate ==
    /\ pc = "loop"
    /\ k < args.mc_iters
    /\ LET need == 5 - Len(board) IN
        /\ ~SampleRaises(deck_left, need)
        /\ LET drawn == random_sample(deck_left, need, rng)
               fb == board \o drawn.sample
               hero_best == hand_strength(hero_cards \o fb)
               villain_best == hand_strength(villain_cards \o fb)
           IN  /\ rng' = drawn.rng
               /\ full_board' = fb
               /\ hero_wins' = WinsAfter(hero_wins, hero_best, villain_best)
               /\ ties' = TiesAfter(ties, hero_best, villain_best)
    /\ k' = k + 1
    /\ UNCHANGED <<hands, args, pc, i, rows, summary, hero_cards, villain_cards, board,
                   deck_left, seedings, calls>>

\* random.sample raises: nothing catches it, the run ends with the traceback
RaiseValueError ==
    /\ pc = "loop"
    /\ k < args.mc_iters
    /\ SampleRaises(deck_left, 5 - Len(board))
    /\ pc' = "error"
    /\ UNCHANGED <<hands, args, rng, i, rows, summary, frame, seedings, calls>>

\* the loop is over: monte_carlo_equity returns, process_hand builds the row,
\* main appends it
ReturnRow ==
    /\ pc = "loop"
    /\ k = args.mc_iters
    /\ rows' = Append(rows, Row(hands[i + 1], Equity(hero_wins, ties, args.mc_iters),
                                args.ev_before_rake))
    /\ i' = i + 1
    /\ pc' = "main"
    /\ hero_cards' = <<>> /\ villain_cards' = <<>> /\ board' = <<>>
    /\ deck_left' = <<>> /\ hero_wins' = 0 /\ ties' = 0 /\ k' = 0 /\ full_board' = <<>>
    /\ UNCHANGED <<hands, args, rng, summary, seedings, calls>>

\* main: if not rows: return
NoData ==
    /\ pc = "main"
    /\ i = Len(hands)
    /\ rows = <<>>
    /\ pc' = "done"
    /\ UNCHANGED <<hands, args, rng, i, rows, summary, frame, seedings, calls>>

\* main: the totals
Summary ==
    /\ pc = "main"
    /\ i = Len(hands)
    /\ rows # <<>>
    /\ LET net_total == RSum([j \in DOMAIN rows |-> rows[j].hero_net])
           ev_total == RSum([j \in DOMAIN rows |-> rows[j].ev_contrib])
       IN  summary' = <<[net_total |-> net_total, ev_total |-> ev_total,
                         diff |-> RSub(ev_total, net_total)]>>
    /\ pc' = "done"
    /\ UNCHANGED <<hands, args, rng, i, rows, frame, seedings, calls>>

Next ==
    \/ SkipHand
    \/ CallEquity
    \/ EnterEquity
    \/ Iterate
    \/ RaiseValueError
    \/ ReturnRow
    \/ NoData
    \/ Summary

Spec == Init /\ [][Next]_vars


\* A single call of monte_carlo_equity on inputs drawn from a small card
\* universe: every pair of disjoint two-card holdings over EqHole, with every
\* board of 0, 3, 4 or 5 cards over EqBoard (in EqBoard's order), besides the
\* one-hand sessions over HandPool.
EqHole == << <<"2","s">>, <<"9","h">>, <<"9","d">>, <<"K","c">>, <<"A","s">> >>
EqBoard == << <<"3","c">>, <<"5","d">>, <<"7","h">>, <<"9","s">>, <<"J","d">>, <<"A","c">> >>

EqHoldings ==
    {<<EqHole[q[1]], EqHole[q[2]]>> :
        q \in {x \in (DOMAIN EqHole) \X (DOMAIN EqHole) : x[1] < x[2]}}

EqBoards ==
    {SelectSeq(EqBoard, LAMBDA c : c \in T) :
        T \in {U \in SUBSET Range(EqBoard) : Cardinality(U) \in {0, 3, 4, 5}}}

EquityHands ==
    {Hand("X", "d0", "Hero", <<Player("Hero", q[1]), Player("V1", q[2])>>, b, 1, 20, <<>>) :
        q \in {x \in EqHoldings \X EqHoldings : Range(x[1]) \cap Range(x[2]) = {}},
        b \in EqBoards}

InitEquity ==
    /\ hands \in {<<h>> : h \in EquityHands \cup HandPool}
    /\ args \in [mc_iters : 1..MaxIters, seed : Seeds, ev_before_rake : BOOLEAN]
    /\ rng \in 0..(RngMod - 1)
    /\ pc = "main"
    /\ i = 0
    /\ rows = <<>>
    /\ summary = <<>>
    /\ NoFrame
    /\ seedings = 0
    /\ calls = 0

SpecEquity == InitEquity /\ [][Next]_vars

\* ------------------------------------------------------------ properties
DupFree(s) == Cardinality(Range(s)) = Len(s)

\* x <= y for rationals with positive denominators
RLeq(x, y) == x[1] * y[2] <= y[1] * x[2]

PairwiseDisjoint(hc, vc, b) ==
    /\ Range(hc) \cap Range(vc) = {}
    /\ Range(hc) \cap Range(b) = {}
    /\ Range(vc) \cap Range(b) = {}

\* A step of main's loop that appends a row; the row is for hands[i + 1].
RowAdded == Len(rows') = Len(rows) + 1
NewRow == rows'[Len(rows')]

\* The hero and the first non-hero player both hold exactly two cards.
FullyKnown(hand) ==
    /\ PlayersGet(hand.players, hand.hero) # <<>>
    /\ FirstNonHero(hand) # <<>>
    /\ Len(HeroCards(hand)) = 2
    /\ Len(VillainCards(hand)) = 2

\* C1: on a complete board of 5 cards disjoint from two disjoint holdings, the
\* equity of the row is exactly 1, 1/2 or 0 as the hero's strength over
\* hero + board is greater than, equal to or smaller than the villain's,
\* whatever the iteration count, the seed and the generator state.
C1_CompleteBoardEquity ==
    [][RowAdded =>
        LET h == hands[i + 1]
            hc == HeroCards(h)
            vc == VillainCards(h)
            hs == hand_strength(hc \o h.board)
            vs == hand_strength(vc \o h.board)
        IN  (Len(h.board) = 5 /\ PairwiseDisjoint(hc, vc, h.board)) =>
                NewRow.equity = (IF hs > vs THEN <<1, 1>>
                                 ELSE IF hs = vs THEN <<1, 2>> ELSE <<0, 1>>)]_vars

\* C1 witness: a tie on a complete board, after the largest iteration count,
\* with a seed given.
C1_Witness ==
    /\ Len(hands) = 1 /\ Len(rows) = 1
    /\ Len(hands[1].board) = 5
    /\ PairwiseDisjoint(HeroCards(hands[1]), VillainCards(hands[1]), hands[1].board)
    /\ hands[1].hand_id = "X"
    /\ args.mc_iters = MaxIters /\ args.seed # None
    /\ rows[1].equity = <<1, 2>>

\* The hand of HandPool a row was built from (hand ids are unique in HandPool).
PoolHand(row) == CHOOSE h \in HandPool : h.hand_id = row.hand_id

\* C2: with a seed supplied (any integer, 0 included), two calls on the same
\* disjoint two-card holdings and an empty board return the same equity,
\* whatever was drawn from the generator before each call.
C2_SeededCallsAgree ==
    \A a, b \in DOMAIN rows :
        LET h == PoolHand(rows[a]) IN
            (/\ args.seed # None
             /\ rows[b].hand_id = rows[a].hand_id
             /\ h.board = <<>>
             /\ Len(HeroCards(h)) = 2 /\ Len(VillainCards(h)) = 2
             /\ PairwiseDisjoint(HeroCards(h), VillainCards(h), h.board))
            => rows[a].equity = rows[b].equity

\* C3: a hand produces a row only if the hero and the first non-hero player
\* both hold exactly two cards; any other hand is skipped: no row, no error,
\* and the loop goes on to the next hand.
C3_RowOnlyIfFullyKnown ==
    [][(pc = "main" /\ i < Len(hands) /\ ~FullyKnown(hands[i + 1])) =>
            (i' = i + 1 /\ rows' = rows /\ pc' = "main")]_vars

\* C4: the row of a hand has eligible_pot = total_pot (EV before rake) or
\* total_pot - rake, hero_invested = eligible_pot / 2, ev_contrib =
\* equity * eligible_pot - hero_invested, and hero_net = the hero's entry of
\* hand.results, 0 when there is none.
C4_RowArithmetic ==
    [][RowAdded =>
        LET h == hands[i + 1]
            r == NewRow
        IN  /\ r.eligible_pot[2] = 1
            /\ r.eligible_pot[1] = (IF args.ev_before_rake THEN h.total_pot
                                    ELSE h.total_pot - h.rake)
            /\ RAdd(r.hero_invested, r.hero_invested) = r.eligible_pot
            /\ RAdd(r.ev_contrib, r.hero_invested) = RMul(r.equity, r.eligible_pot)
            /\ r.hero_net[2] = 1
            /\ \/ \E e \in Range(h.results) : e[1] = h.hero /\ r.hero_net[1] = e[2]
               \/ (\A e \in Range(h.results) : e[1] # h.hero) /\ r.hero_net[1] = 0]_vars

\* C4 witness: total_pot 100, rake 5, EV after rake, equity 1: 95, 47.5, 47.5;
\* followed by a row whose hero has no entry in results.
C4_Witness ==
    /\ Len(rows) = 2
    /\ ~args.ev_before_rake
    /\ rows[1].hand_id = "A"
    /\ rows[1].eligible_pot = <<95, 1>>
    /\ rows[1].hero_invested = <<95, 2>>
    /\ rows[1].ev_contrib = <<95, 2>>
    /\ rows[1].hero_net = <<10, 1>>
    /\ rows[2].hand_id = "C"
    /\ rows[2].ev_contrib = <<-19, 2>>
    /\ rows[2].hero_net = <<0, 1>>

\* C5: once the loop has consumed every hand, rows holds one row per
\* qualifying (fully known) hand, in input order, and none for any other hand;
\* the totals are the sums over the rows and diff = ev_total - net_total.
C5_RowsAndTotals ==
    (pc = "done") =>
        LET q == SelectSeq(hands, FullyKnown) IN
            /\ Len(rows) = Len(q)
            /\ \A j \in DOMAIN rows : rows[j].hand_id = q[j].hand_id
            /\ summary # <<>> =>
                /\ summary[1].net_total = RSum([j \in DOMAIN rows |-> rows[j].hero_net])
                /\ summary[1].ev_total = RSum([j \in DOMAIN rows |-> rows[j].ev_contrib])
                /\ summary[1].diff = RSub(summary[1].ev_total, summary[1].net_total)

\* The aggregation of C5 relative to process_hand's own decision: rows holds
\* one row per hand for which process_hand returned a row, in input order,
\* and the totals are the sums over them.
RowsFollowProcessHand ==
    (pc = "done") =>
        LET q == SelectSeq(hands, HasRow) IN
            /\ Len(rows) = Len(q)
            /\ \A j \in DOMAIN rows : rows[j].hand_id = q[j].hand_id
            /\ summary # <<>> =>
                /\ summary[1].net_total = RSum([j \in DOMAIN rows |-> rows[j].hero_net])
                /\ summary[1].ev_total = RSum([j \in DOMAIN rows |-> rows[j].ev_contrib])
                /\ summary[1].diff = RSub(summary[1].ev_total, summary[1].net_total)

\* C6: a hand whose cards overlap between hero, villain and board, or whose
\* board has more than 5 cards, gets no equity and no row.
C6_PreconditionEnforced ==
    [][RowAdded =>
        LET h == hands[i + 1] IN
            /\ PairwiseDisjoint(HeroCards(h), VillainCards(h), h.board)
            /\ Len(h.board) <= 5]_vars

\* The failure was random.sample finding too few cards left in the deck.
InsufficientDeck == pc = "error" /\ 5 - Len(board) > Len(deck_left)

\* A hand that qualifies and meets monte_carlo_equity's preconditions.
ValidQualifying(hand) ==
    /\ FullyKnown(hand)
    /\ PairwiseDisjoint(HeroCards(hand), VillainCards(hand), hand.board)
    /\ DupFree(HeroCards(hand) \o VillainCards(hand) \o hand.board)
    /\ Len(hand.board) <= 5

\* C7: when the run has ended, and not on an insufficient deck, every valid
\* qualifying hand of the session, before or after a failing one, has its row,
\* and the totals over those rows were computed.
C7_FailureConfined ==
    (pc \in {"done", "error"} /\ ~InsufficientDeck) =>
        \A j \in DOMAIN hands :
            ValidQualifying(hands[j]) =>
                /\ \E m \in DOMAIN rows : rows[m].hand_id = hands[j].hand_id
                /\ summary # <<>>

\* C8 as stated: with a seed supplied the generator is seeded at most once in
\* the run, so a later simulation continues from the state the previous one
\* left (stated for sessions of valid qualifying hands).
C8_SeededOnce ==
    (args.seed # None /\ \A j \in DOMAIN hands : ValidQualifying(hands[j])) =>
        seedings <= 1

\* C8 amended: seeding happens inside monte_carlo_equity, at the start of every
\* call made with a non-zero seed: there are as many seedings as calls, and
\* every simulation loop starts from the seed's initial state.
C8_ReseededEveryCall ==
    (args.seed # None /\ args.seed[1] # 0) =>
        /\ seedings = (IF pc = "mce" THEN calls - 1 ELSE calls)
        /\ (pc = "loop" /\ k = 0) => rng = SeedState(args.seed[1])

\* C8 witness: the second simulation of a run starts, re-seeded, after the
\* first one moved the generator away from the seed's state.
C8_Witness ==
    /\ args.seed = <<1>>
    /\ Len(rows) = 1 /\ rows[1].hand_id = "E"
    /\ pc = "loop" /\ k = 0
    /\ seedings = 2 /\ calls = 2
    /\ rng = SeedState(1)

\* C9: under the preconditions every iteration completes the board to exactly
\* 5 cards: the given board, then cards of the deck that are not dead, without
\* repetition and without any hole card; the caller's lists are what they were.
C9_CompletedBoard ==
    (/\ pc = "loop"
     /\ PairwiseDisjoint(hero_cards, villain_cards, board)
     /\ DupFree(hero_cards \o villain_cards \o board)
     /\ Len(board) <= 5) =>
        /\ hero_cards = HeroCards(hands[i + 1])
        /\ villain_cards = VillainCards(hands[i + 1])
        /\ board = hands[i + 1].board
        /\ k >= 1 =>
            /\ Len(full_board) = 5
            /\ SubSeq(full_board, 1, Len(board)) = board
            /\ \A j \in (Len(board) + 1)..5 :
                  /\ full_board[j] \in Range(deck)
                  /\ full_board[j] \notin Range(hero_cards \o villain_cards \o board)
            /\ DupFree(full_board)
            /\ Range(full_board) \cap Range(hero_cards \o villain_cards) = {}

\* C9 witness: an empty board completed by five drawn cards.
C9_Witness ==
    /\ pc = "loop" /\ k >= 1
    /\ board = <<>>
    /\ Len(hero_cards) = 2 /\ Len(villain_cards) = 2
    /\ PairwiseDisjoint(hero_cards, villain_cards, board)
    /\ Len(full_board) = 5 /\ DupFree(full_board)

\* C10: an iteration adds one to hero_wins when the hero's strength is
\* greater, one to ties when the strengths are equal, and nothing otherwise;
\* hero_wins + ties never exceeds the iterations done, and the equity of
\* every row lies in [0, 1].
C10_CountersAndRange ==
    [][/\ (pc = "loop" /\ pc' = "loop") =>
            LET hb == hand_strength(hero_cards \o full_board')
                vb == hand_strength(villain_cards \o full_board')
            IN  /\ k' = k + 1
                /\ hero_wins' = hero_wins + (IF hb > vb THEN 1 ELSE 0)
                /\ ties' = ties + (IF hb = vb THEN 1 ELSE 0)
                /\ hero_wins' + ties' <= k'
       /\ RowAdded => (RLeq(<<0, 1>>, NewRow.equity) /\ RLeq(NewRow.equity, <<1, 1>>))]_vars

\* C10 witness: two iterations, one won and one tied.
C10_Witness ==
    /\ pc = "loop" /\ k = 2
    /\ hero_wins = 1 /\ ties = 1

=============================================================================
